---- MODULE Spec2Model ----
(***************************************************************************)
(* A model of the Bitbucket source-control adapter (src/index.js).         *)
(*                                                                         *)
(* The adapter is stateless: every public operation is a request/response  *)
(* cycle.  The model is a state machine whose state is the operation in    *)
(* progress, its inputs, the HTTP requests it has handed to the breaker,   *)
(* and its completion (returned promise resolved / rejected, or an         *)
(* exception thrown synchronously).                                        *)
(*                                                                         *)
(* Strings are sequences of tokens.  In every string the adapter splits or *)
(* matches, a delimiter character (":", "/", "@", "#") is a token of its   *)
(* own and no other token contains one, so splitting a token sequence on a *)
(* delimiter is what String.split does on the characters.  JavaScript      *)
(* values are tagged records.                                              *)
(***************************************************************************)
EXTENDS Integers, Sequences, FiniteSets, TLC

VARIABLES pc, op, config, origin, scm, sent, response, commit, perm, outcome

vars == <<pc, op, config, origin, scm, sent, response, commit, perm, outcome>>

(***************************************************************************)
(* Bounds of the model                                                     *)
(***************************************************************************)
\* longest opaque reference (in tokens) drawn as an arbitrary input
MaxRefLen == 3
\* longest push change list of a webhook payload
MaxChanges == 3

(***************************************************************************)
(* JavaScript values                                                       *)
(***************************************************************************)
Undefined == [t |-> "undefined"]

Null == [t |-> "null"]

Str(s) == [t |-> "string", v |-> s]

Bool(b) == [t |-> "boolean", v |-> b]

Obj(o) == [t |-> "object", o |-> o]

\* a value interpolated in a template string: undefined prints as "undefined"
Interp(v) == IF v.t = "string" THEN v.v ELSE <<v.t>>

\* the outcome of evaluating a piece of synchronous code
Return(v) == [c |-> "return", value |-> v]

Throw(e) == [c |-> "throw", error |-> e]

\* new Error(message) and the TypeError the runtime raises on a property
\* access of undefined or null
Err(name, message, statusCode, body) ==
    [name |-> name, message |-> message, statusCode |-> statusCode, body |-> body]

TypeError == Err("TypeError", "Cannot read property", 0, Undefined)

NoError == Err("none", "none", 0, Undefined)

(***************************************************************************)
(* String.prototype.split(delimiter)                                       *)
(***************************************************************************)
RECURSIVE IndexFrom(_, _, _)
IndexFrom(s, d, i) ==
    IF i > Len(s) THEN 0
    ELSE IF s[i] = d THEN i
    ELSE IndexFrom(s, d, i + 1)

IndexOf(s, d) == IndexFrom(s, d, 1)

RECURSIVE Split(_, _)
Split(s, d) ==
    LET i == IndexOf(s, d)
    IN  IF i = 0 THEN <<s>>
        ELSE <<SubSeq(s, 1, i - 1)>> \o Split(SubSeq(s, i + 1, Len(s)), d)

\* array[i] of JavaScript, zero-based: undefined beyond the end
At(a, i) == IF i + 1 <= Len(a) THEN Str(a[i + 1]) ELSE Undefined

\* getScmUriParts with the last two targets of the destructuring exchanged
getScmUriParts_swapped(scmUri) ==
    LET parts == Split(scmUri, ":")
    IN  [hostname |-> At(parts, 0), repoId |-> At(parts, 2), branch |-> At(parts, 1)]

(***************************************************************************)
(* getScmUriParts: [scm.hostname, scm.repoId, scm.branch] = split(':')     *)
(***************************************************************************)
getScmUriParts(scmUri) ==
    LET parts == Split(scmUri, ":")
    IN  [hostname |-> At(parts, 0), repoId |-> At(parts, 1), branch |-> At(parts, 2)]

NoScm == [hostname |-> Undefined, repoId |-> Undefined, branch |-> Undefined]

(***************************************************************************)
(* schema.config.regex.CHECKOUT_URL: scheme://[user@]hostname/owner/repo   *)
(* [#branchName].  exec returns null when the URL does not match, else the *)
(* match array: whole match, hostname, owner, repo, and the branch suffix  *)
(* WITH its leading "#"; the group of an absent suffix is undefined.       *)
(***************************************************************************)
Delimiters == {":", "/", "@", "#"}

SchemePrefix == <<"https", ":", "/", "/">>

NameOk(s) == Len(s) > 0 /\ \A i \in 1..Len(s) : s[i] \notin Delimiters

BranchOk(s) == Len(s) > 0 /\ \A i \in 1..Len(s) : s[i] # ":"

CHECKOUT_URL_exec(checkoutUrl) ==
    LET n        == Len(SchemePrefix)
        rest     == SubSeq(checkoutUrl, n + 1, Len(checkoutUrl))
        hashAt   == IndexOf(rest, "#")
        main     == IF hashAt = 0 THEN rest ELSE SubSeq(rest, 1, hashAt - 1)
        suffix   == IF hashAt = 0 THEN <<>> ELSE SubSeq(rest, hashAt, Len(rest))
        atAt     == IndexOf(main, "@")
        hostPath == IF atAt = 0 THEN main ELSE SubSeq(main, atAt + 1, Len(main))
        segs     == Split(hostPath, "/")
    IN  IF /\ Len(checkoutUrl) >= n
           /\ SubSeq(checkoutUrl, 1, n) = SchemePrefix
           /\ (atAt = 0 \/ NameOk(SubSeq(main, 1, atAt - 1)))
           /\ Len(segs) = 3
           /\ \A i \in 1..3 : NameOk(segs[i])
           /\ (hashAt = 0 \/ BranchOk(Tail(suffix)))
        THEN [t |-> "array",
              a |-> <<Str(checkoutUrl), Str(segs[1]), Str(segs[2]), Str(segs[3]),
                      IF hashAt = 0 THEN Undefined ELSE Str(suffix)>>]
        ELSE Null

MATCH_COMPONENT_HOSTNAME == 1

MATCH_COMPONENT_USER == 2

MATCH_COMPONENT_REPO == 3

MATCH_COMPONENT_BRANCH == 4

(***************************************************************************)
(* getRepoInfo: indexes the match without testing it for null, and calls   *)
(* slice(1) on the branch group without testing it for undefined.          *)
(***************************************************************************)
getRepoInfo(checkoutUrl) ==
    LET matched == CHECKOUT_URL_exec(checkoutUrl)
    IN  IF matched.t = "null" THEN Throw(TypeError)
        ELSE IF matched.a[MATCH_COMPONENT_BRANCH + 1].t = "undefined" THEN Throw(TypeError)
        ELSE Return([hostname |-> matched.a[MATCH_COMPONENT_HOSTNAME + 1],
                     repo     |-> matched.a[MATCH_COMPONENT_REPO + 1],
                     branch   |-> Str(Tail(matched.a[MATCH_COMPONENT_BRANCH + 1].v)),
                     username |-> matched.a[MATCH_COMPONENT_USER + 1]])

(***************************************************************************)
(* Inputs                                                                  *)
(***************************************************************************)
\* checkout URLs, well-formed and not, assembled from their components
CheckoutUrls ==
    { scheme \o user \o host \o path \o suffix :
        scheme \in {SchemePrefix, <<>>},
        user   \in {<<>>, <<"user", "@">>},
        host   \in {<<"bitbucket.org">>, <<>>},
        path   \in {<<"/", "owner", "/", "repo">>, <<"/", "owner">>,
                    <<"/", "owner", "/", "repo", "/", "extra">>},
        suffix \in {<<>>, <<"#", "master">>, <<"#", "feature", "/", "x">>,
                    <<"#">>, <<"#", "a", ":", "b">>} }

\* repository uuids the provider may answer with
Uuids == {<<"{u1}">>, <<"{u2}">>, <<"{u", ":", "3}">>}

\* HTTP status codes the provider may answer with
StatusCodes == {200, 201, 401, 404, 500}

\* the sequences over S of length at most n
RECURSIVE SeqsUpTo(_, _)
SeqsUpTo(S, n) ==
    IF n = 0 THEN {<<>>}
    ELSE LET shorter == SeqsUpTo(S, n - 1)
         IN  shorter \cup { Append(s, x) : s \in {q \in shorter : Len(q) = n - 1}, x \in S }

\* opaque references handed to an operation by the orchestrator: the ones
\* _parseUrl produces, and every short token sequence besides
RefInputs ==
    SeqsUpTo({"h", ":"}, MaxRefLen)
      \cup {<<"h", ":", "o", "/", u, ":", "master">> : u \in {"{u1}", "{u2}"}}
      \cup {<<"h", ":", "o", "/", "{u1}">>, <<"h", ":", "o", ":", "master">>,
            <<"h", ":", "o", "/", "{u1}", ":", "master", ":", "x">>}

(***************************************************************************)
(* Webhook inputs.  A payload is given by the value hoek.reach finds at    *)
(* each path _parseHook reads: undefined where a segment is absent.        *)
(***************************************************************************)
NoHeaders == [eventKey |-> Undefined, requestUuid |-> Undefined]

NoPayload ==
    [repoOwner |-> Undefined, href |-> Undefined, actor |-> Undefined,
     changes |-> Undefined, pullrequest |-> Undefined]

EventKeys ==
    {Undefined} \cup
    { Str(k) : k \in { <<"repo", ":", "push">>, <<"repo", ":", "fork">>, <<"repo">>,
                       <<"pullrequest", ":", "created">>, <<"pullrequest", ":", "updated">>,
                       <<"pullrequest", ":", "fulfilled">>, <<"pullrequest", ":", "fullfilled">>,
                       <<"pullrequest", ":", "rejected">>, <<"pullrequest", ":", "approved">>,
                       <<"pullrequest">>, <<"issue", ":", "created">> } }

\* an entry of push.changes by what reach finds at new.name and new.target.hash
\* (both absent for a deleted branch, whose "new" is null)
ChangeEntries ==
    { [name |-> Str(<<"main">>), hash |-> Str(<<"abc123">>)],
      [name |-> Str(<<"dev">>), hash |-> Str(<<"def456">>)],
      [name |-> Undefined, hash |-> Undefined] }

ChangeLists ==
    {Undefined} \cup { [t |-> "array", a |-> l] : l \in SeqsUpTo(ChangeEntries, MaxChanges) }

PullRequests ==
    { Undefined,
      Obj([destination |-> Str(<<"master">>), sourceHash |-> Str(<<"40171b6">>),
           id |-> Str(<<"7">>), sourceBranch |-> Str(<<"feature">>)]) }

Repositories ==
    { [repoOwner |-> Undefined, href |-> Undefined],
      [repoOwner |-> Str(<<"owner">>),
       href |-> Str(<<"https:", "//", "bitbucket.org", "/owner/repo">>)] }

Payloads ==
    { [repoOwner |-> r.repoOwner, href |-> r.href, actor |-> Str(<<"actor">>),
       changes |-> c, pullrequest |-> p] :
        r \in Repositories, c \in ChangeLists, p \in PullRequests }

Headers == [eventKey : EventKeys, requestUuid : {Str(<<"req-1">>)}]

\* url.parse: a TypeError for an argument that is not a string
UrlParse(href) ==
    IF href.t # "string" THEN Throw(TypeError)
    ELSE Return([protocol |-> <<href.v[1]>>, hostname |-> <<href.v[3]>>,
                 pathname |-> <<href.v[4]>>])

\* hoek.reach(payload, 'pullrequest.<path>')
ReachPr(payload, field) ==
    IF payload.pullrequest.t = "object" THEN payload.pullrequest.o[field] ELSE Undefined

(***************************************************************************)
(* _parseHook                                                              *)
(***************************************************************************)
\* PushChange reading the last entry of the list instead of the first
PushChange_last(changes) ==
    IF Len(changes.a) >= 1 THEN Obj(changes.a[Len(changes.a)]) ELSE Undefined

\* the entry of the change list the push event is read from: changes[0]
PushChange(changes) ==
    IF Len(changes.a) >= 1 THEN Obj(changes.a[1]) ELSE Undefined

\* hoek.reach(change, 'new.name' | 'new.target.hash')
ReachChange(change, field) ==
    IF change.t = "object" THEN change.o[field] ELSE Undefined

\* the action of a pullrequest event, null when it is not mapped
PrAction(actionHeader) ==
    IF actionHeader = Str(<<"created">>) THEN Str(<<"opened">>)
    ELSE IF actionHeader = Str(<<"updated">>) THEN Str(<<"synchronized">>)
    ELSE IF actionHeader = Str(<<"fullfilled">>) \/ actionHeader = Str(<<"rejected">>)
         THEN Str(<<"closed">>)
    ELSE Null

CheckoutUrlOf(link, repoOwner) ==
    Str(link.protocol \o <<"//">> \o Interp(repoOwner) \o <<"@">>
          \o link.hostname \o link.pathname \o <<".git">>)

parseHook(headers, payload) ==
    IF headers.eventKey.t # "string" THEN Throw(TypeError)
    ELSE
    LET keyParts     == Split(headers.eventKey.v, ":")
        typeHeader   == At(keyParts, 0)
        actionHeader == At(keyParts, 1)
        repoOwner    == payload.repoOwner
        link         == UrlParse(payload.href)
    IN  IF typeHeader = Str(<<"repo">>)
        THEN IF actionHeader # Str(<<"push">>) THEN Return(Null)
             ELSE IF link.c = "throw" THEN link
             ELSE IF payload.changes.t # "array" THEN Throw(TypeError)
             ELSE Return(Obj([hookId      |-> headers.requestUuid,
                              type        |-> Str(<<"repo">>),
                              action      |-> Str(<<"push">>),
                              username    |-> payload.actor,
                              checkoutUrl |-> CheckoutUrlOf(link.value, repoOwner),
                              branch      |-> ReachChange(PushChange(payload.changes), "name"),
                              sha         |-> ReachChange(PushChange(payload.changes), "hash")]))
        ELSE IF typeHeader = Str(<<"pullrequest">>)
        THEN IF PrAction(actionHeader).t = "null" THEN Return(Null)
             ELSE IF link.c = "throw" THEN link
             ELSE Return(Obj([hookId      |-> headers.requestUuid,
                              action      |-> PrAction(actionHeader),
                              type        |-> Str(<<"pr">>),
                              username    |-> payload.actor,
                              checkoutUrl |-> CheckoutUrlOf(link.value, repoOwner),
                              branch      |-> ReachPr(payload, "destination"),
                              sha         |-> ReachPr(payload, "sourceHash"),
                              prNum       |-> ReachPr(payload, "id"),
                              prRef       |-> ReachPr(payload, "sourceBranch")]))
        ELSE Return(Null)

(***************************************************************************)
(* API endpoints                                                           *)
(***************************************************************************)
API_URL_V1 == <<"https://api.bitbucket.org/1.0">>

API_URL_V2 == <<"https://api.bitbucket.org/2.0">>

REPO_URL == API_URL_V2 \o <<"/repositories">>

USER_URL == API_URL_V2 \o <<"/users">>

\* the options object handed to breaker.runCommand: method, url and, for a
\* commit-status write, body.state
Options(method, url, state, description) ==
    [method |-> method, url |-> url, state |-> state, description |-> description]

Get(url) == Options("GET", url, Undefined, Undefined)

NoResponse == [statusCode |-> 0, body |-> Undefined]

\* the body of an error answer, and of an answer that lacks the expected fields
ErrorBody == Obj([type |-> "error"])

\* the answers to a request whose successful body is one of bodies: an error
\* status carries the error body, a 2xx status any body
Responses(bodies) ==
    { r \in [statusCode : StatusCodes, body : bodies \cup {ErrorBody}] :
        r.statusCode \notin {200, 201} => r.body = ErrorBody }

\* new Error(`STATUS CODE ${response.statusCode}: ${JSON.stringify(response.body)}`)
StatusCodeError(r) == Err("Error", "STATUS CODE", r.statusCode, r.body)

(***************************************************************************)
(* State                                                                   *)
(***************************************************************************)
NoOrigin == [set |-> FALSE, parts |-> NoScm]

DefaultConfig ==
    [checkoutUrl |-> <<>>, scmUri |-> <<>>, buildStatus |-> "none",
     jobName |-> Undefined, tokenOk |-> TRUE, ref |-> Undefined,
     headers |-> NoHeaders, payload |-> NoPayload]

Scopes == {"admin", "push", "pull"}

\* the promise of one getPerm call, with the status it was answered with
PermPromise(state, statusCode, value, error) ==
    [state |-> state, statusCode |-> statusCode, value |-> value, error |-> error]

NoPerm == [s \in Scopes |-> PermPromise("idle", 0, Undefined, NoError)]

NoOutcome == [state |-> "none", value |-> Undefined, error |-> NoError]

Pending == [state |-> "pending", value |-> Undefined, error |-> NoError]

Resolved(v) == [state |-> "resolved", value |-> v, error |-> NoError]

Rejected(e) == [state |-> "rejected", value |-> Undefined, error |-> e]

Thrown(e) == [state |-> "thrown", value |-> Undefined, error |-> e]

Init ==
    /\ pc = "idle"
    /\ op = "none"
    /\ config = DefaultConfig
    /\ origin = NoOrigin
    /\ scm = NoScm
    /\ sent = <<>>
    /\ response = NoResponse
    /\ commit = Undefined
    /\ perm = NoPerm
    /\ outcome = NoOutcome

\* an operation may start when the adapter is idle, or on the reference a
\* _parseUrl call has just resolved to
Chained == pc = "done" /\ op = "parseUrl" /\ outcome.state = "resolved"

Callable == pc = "idle" \/ Chained

ScmUriChoices == IF Chained THEN {outcome.value.v} ELSE RefInputs

(***************************************************************************)
(* _parseUrl                                                               *)
(***************************************************************************)
ParseUrl(checkoutUrl) ==
    /\ pc = "idle"
    /\ op' = "parseUrl"
    /\ config' = [DefaultConfig EXCEPT !.checkoutUrl = checkoutUrl]
    /\ LET r == getRepoInfo(checkoutUrl)
       IN  IF r.c = "throw"
           THEN /\ pc' = "done"
                /\ outcome' = Thrown(r.error)
                /\ sent' = <<>>
           ELSE /\ pc' = "waiting"
                /\ outcome' = Pending
                /\ sent' = <<Get(REPO_URL \o <<"/">> \o Interp(r.value.username)
                                  \o <<"/">> \o Interp(r.value.repo)
                                  \o <<"/refs/branches/">> \o Interp(r.value.branch))>>
    /\ UNCHANGED <<origin, scm, response, commit, perm>>

\* bodies the branch lookup may answer with: the branch object with its
\* repository, or an object without one
BranchBodies == {Obj([repository |-> [uuid |-> Str(u)]]) : u \in Uuids}

ParseUrlResponse(r) ==
    /\ pc = "waiting"
    /\ op = "parseUrl"
    /\ response' = r
    /\ pc' = "done"
    /\ LET repoInfo == getRepoInfo(config.checkoutUrl).value
       IN  IF r.statusCode = 404
           THEN /\ outcome' = Rejected(Err("Error", "Cannot find repository", 0, Undefined))
                /\ origin' = origin
           ELSE IF r.statusCode # 200
           THEN /\ outcome' = Rejected(StatusCodeError(r))
                /\ origin' = origin
           ELSE IF "repository" \notin DOMAIN r.body.o
           THEN /\ outcome' = Rejected(TypeError)
                /\ origin' = origin
           ELSE LET repoId == Interp(repoInfo.username) \o <<"/">>
                                \o Interp(r.body.o.repository.uuid)
                IN  /\ outcome' = Resolved(Str(Interp(repoInfo.hostname) \o <<":">>
                                       \o repoId \o <<":">> \o Interp(repoInfo.branch)))
                    /\ origin' = [set |-> TRUE,
                                  parts |-> [hostname |-> repoInfo.hostname,
                                             repoId   |-> Str(repoId),
                                             branch   |-> repoInfo.branch]]
    /\ UNCHANGED <<op, config, scm, sent, commit, perm>>

(***************************************************************************)
(* _parseHook is synchronous: it returns an already resolved promise or    *)
(* throws.                                                                 *)
(***************************************************************************)
ParseHook(headers, payload) ==
    /\ pc = "idle"
    /\ pc' = "done"
    /\ op' = "parseHook"
    /\ config' = [DefaultConfig EXCEPT !.headers = headers, !.payload = payload]
    /\ LET r == parseHook(headers, payload)
       IN  outcome' = IF r.c = "throw" THEN Thrown(r.error) ELSE Resolved(r.value)
    /\ UNCHANGED <<origin, scm, sent, response, commit, perm>>

\* CheckStatus giving a 404 the error _parseUrl gives it
CheckStatus_notFound(r) ==
    IF r.statusCode = 404 THEN Throw(Err("Error", "Cannot find repository", 0, Undefined))
    ELSE IF r.statusCode # 200 THEN Throw(Err("Error", "STATUS CODE", r.statusCode, r.body))
    ELSE Return(r)

(***************************************************************************)
(* The status check of the read-through operations:                        *)
(*   if (response.statusCode !== 200) throw new Error(`STATUS CODE ...`)   *)
(***************************************************************************)
CheckStatus(r) ==
    IF r.statusCode # 200 THEN Throw(StatusCodeError(r)) ELSE Return(r)

\* an operation that decodes config.scmUri and issues one request
Begin(name, scmUri, cfg, requests) ==
    /\ Callable
    /\ op' = name
    /\ config' = [cfg EXCEPT !.scmUri = scmUri]
    /\ scm' = getScmUriParts(scmUri)
    /\ sent' = requests
    /\ pc' = "waiting"
    /\ outcome' = Pending
    /\ response' = NoResponse
    /\ UNCHANGED <<origin, commit, perm>>

\* the .then handler of a pending request settles the operation
Settle(name, r, completion) ==
    /\ pc = "waiting"
    /\ op = name
    /\ response' = r
    /\ pc' = "done"
    /\ outcome' = IF completion.c = "throw" THEN Rejected(completion.error)
                  ELSE Resolved(completion.value)
    /\ UNCHANGED <<op, config, origin, scm, sent, commit, perm>>

(***************************************************************************)
(* _getCommitSha                                                           *)
(***************************************************************************)
GetCommitSha(scmUri) ==
    LET parts == getScmUriParts(scmUri)
    IN  Begin("getCommitSha", scmUri, DefaultConfig,
              <<Get(REPO_URL \o <<"/">> \o Interp(parts.repoId)
                      \o <<"/refs/branches/">> \o Interp(parts.branch))>>)

ShaBodies == {Obj([target |-> [hash |-> Str(<<"abc123">>)]])}

GetCommitShaResponse(r) ==
    Settle("getCommitSha", r,
           IF CheckStatus(r).c = "throw" THEN CheckStatus(r)
           ELSE IF "target" \notin DOMAIN r.body.o THEN Throw(TypeError)
           ELSE Return(r.body.o.target.hash))

(***************************************************************************)
(* _getFile                                                                *)
(***************************************************************************)
Refs == {Undefined, Str(<<"40171b6">>)}

GetFile(scmUri, ref) ==
    LET parts  == getScmUriParts(scmUri)
        branch == IF ref.t = "undefined" THEN parts.branch ELSE ref
    IN  Begin("getFile", scmUri, [DefaultConfig EXCEPT !.ref = ref],
              <<Get(API_URL_V1 \o <<"/repositories/">> \o Interp(parts.repoId)
                      \o <<"/src/">> \o Interp(branch) \o <<"/">> \o <<"screwdriver.yaml">>)>>)

FileBodies == {Obj([data |-> Str(<<"content">>)])}

GetFileResponse(r) ==
    Settle("getFile", r,
           IF CheckStatus(r).c = "throw" THEN CheckStatus(r)
           ELSE IF "data" \notin DOMAIN r.body.o THEN Return(Undefined)
           ELSE Return(r.body.o.data))

(***************************************************************************)
(* _decorateUrl                                                            *)
(***************************************************************************)
DecorateUrl(scmUri) ==
    LET parts == getScmUriParts(scmUri)
    IN  Begin("decorateUrl", scmUri, DefaultConfig,
              <<Get(REPO_URL \o <<"/">> \o Interp(parts.repoId))>>)

RepoBodies == {Obj([href |-> Str(<<"https://bitbucket.org/owner/repo">>),
                    full_name |-> Str(<<"owner/repo">>)])}

DecorateUrlResponse(r) ==
    Settle("decorateUrl", r,
           IF CheckStatus(r).c = "throw" THEN CheckStatus(r)
           ELSE IF "href" \notin DOMAIN r.body.o THEN Throw(TypeError)
           ELSE Return(Obj([url |-> r.body.o.href, name |-> r.body.o.full_name,
                            branch |-> scm.branch])))

(***************************************************************************)
(* _decorateCommit and the author lookup (_decorateAuthor) it chains       *)
(***************************************************************************)
DecorateCommit(scmUri) ==
    LET parts == getScmUriParts(scmUri)
    IN  Begin("decorateCommit", scmUri, DefaultConfig,
              <<Get(REPO_URL \o <<"/">> \o Interp(parts.repoId)
                      \o <<"/commit/">> \o <<"40171b6">>)>>)

CommitBodies == {Obj([author |-> Str(<<"batman">>), message |-> Str(<<"fix">>),
                      href |-> Str(<<"https://bitbucket.org/owner/repo/commits/40171b6">>)])}

\* the commit has been answered: a failure settles the operation, a success
\* issues the author lookup
DecorateCommitResponse(r) ==
    /\ pc = "waiting"
    /\ op = "decorateCommit"
    /\ response' = r
    /\ IF CheckStatus(r).c = "throw"
       THEN /\ pc' = "done"
            /\ outcome' = Rejected(CheckStatus(r).error)
            /\ UNCHANGED <<sent, commit>>
       ELSE IF "author" \notin DOMAIN r.body.o
       THEN /\ pc' = "done"
            /\ outcome' = Rejected(TypeError)
            /\ UNCHANGED <<sent, commit>>
       ELSE /\ pc' = "waitingAuthor"
            /\ commit' = r.body
            /\ sent' = Append(sent, Get(USER_URL \o <<"/">> \o Interp(r.body.o.author)))
            /\ UNCHANGED outcome
    /\ UNCHANGED <<op, config, origin, scm, perm>>

DecorateAuthor(username) ==
    /\ pc = "idle"
    /\ op' = "decorateAuthor"
    /\ config' = DefaultConfig
    /\ sent' = <<Get(USER_URL \o <<"/">> \o username)>>
    /\ pc' = "waitingAuthor"
    /\ outcome' = Pending
    /\ UNCHANGED <<origin, scm, response, commit, perm>>

UserBodies == {Obj([href |-> Str(<<"https://bitbucket.org/batman">>),
                    display_name |-> Str(<<"Batman">>), username |-> Str(<<"batman">>),
                    avatar |-> Str(<<"https://bitbucket.org/account/batman/avatar/32/">>)])}

DecorateAuthorResponse(r) ==
    /\ pc = "waitingAuthor"
    /\ response' = r
    /\ pc' = "done"
    /\ LET author == Obj([url |-> r.body.o.href, name |-> r.body.o.display_name,
                          username |-> r.body.o.username, avatar |-> r.body.o.avatar])
       IN  outcome' =
             IF CheckStatus(r).c = "throw" THEN Rejected(CheckStatus(r).error)
             ELSE IF "href" \notin DOMAIN r.body.o THEN Rejected(TypeError)
             ELSE IF op = "decorateCommit"
                  THEN Resolved(Obj([url |-> commit.o.href, message |-> commit.o.message,
                                     author |-> author]))
             ELSE Resolved(author)
    /\ UNCHANGED <<op, config, origin, scm, sent, commit, perm>>

(***************************************************************************)
(* _updateCommitStatus                                                     *)
(***************************************************************************)
STATE_MAP ==
    [SUCCESS |-> "SUCCESSFUL", RUNNING |-> "INPROGRESS", QUEUED |-> "INPROGRESS",
     FAILURE |-> "FAILED", ABORTED |-> "STOPPED"]

\* the build statuses of the orchestrator's data schema
BuildStatuses == {"SUCCESS", "RUNNING", "QUEUED", "FAILURE", "ABORTED"}

JobNames == {Undefined, Str(<<"main">>)}

\* STATE_MAP[config.buildStatus]: undefined for a key the table lacks
StateOf(buildStatus) ==
    IF buildStatus \in DOMAIN STATE_MAP THEN Str(<<STATE_MAP[buildStatus]>>) ELSE Undefined

\* config.jobName ? `Screwdriver/${config.jobName}` : 'Screwdriver'
Description(jobName) ==
    IF jobName.t = "string" /\ Len(jobName.v) > 0
    THEN Str(<<"Screwdriver/">> \o jobName.v) ELSE Str(<<"Screwdriver">>)

\* decodeURIComponent(config.token) raises a URIError on a malformed escape,
\* while the options are being built and before any request is issued
UpdateCommitStatus(scmUri, buildStatus, jobName, tokenOk) ==
    LET parts == getScmUriParts(scmUri)
        cfg   == [DefaultConfig EXCEPT !.buildStatus = buildStatus,
                                       !.jobName = jobName, !.tokenOk = tokenOk]
    IN  IF tokenOk
        THEN Begin("updateCommitStatus", scmUri, cfg,
                   <<Options("POST",
                             REPO_URL \o <<"/">> \o Interp(parts.repoId) \o <<"/commit/">>
                               \o <<"40171b6">> \o <<"/statuses/build">>,
                             StateOf(buildStatus), Description(jobName))>>)
        ELSE /\ Callable
             /\ op' = "updateCommitStatus"
             /\ config' = [cfg EXCEPT !.scmUri = scmUri]
             /\ scm' = parts
             /\ pc' = "done"
             /\ sent' = <<>>
             /\ outcome' = Thrown(Err("URIError", "URI malformed", 0, Undefined))
             /\ response' = NoResponse
             /\ UNCHANGED <<origin, commit, perm>>

\* CheckWritten accepting 201 only
CheckWritten_only201(r) ==
    IF r.statusCode # 201 THEN Throw(Err("Error", "STATUS CODE", r.statusCode, r.body))
    ELSE Return(Obj(r))

\* if (response.statusCode !== 201 && response.statusCode !== 200) throw ...
CheckWritten(r) ==
    IF r.statusCode # 201 /\ r.statusCode # 200 THEN Throw(StatusCodeError(r))
    ELSE Return(Obj(r))

StatusBodies == {Obj([state |-> "written"])}

UpdateCommitStatusResponse(r) ==
    Settle("updateCommitStatus", r, CheckWritten(r))

(***************************************************************************)
(* _getPermissions                                                         *)
(***************************************************************************)
\* the query string getPerm appends for the desired access
RoleQuery(desiredAccess) ==
    IF desiredAccess = "admin" THEN <<"?role=admin">>
    ELSE IF desiredAccess = "push" THEN <<"?role=contributor">>
    ELSE <<>>

\* const [owner, uuid] = repoId.split('/')
OwnerUuid(repoId) ==
    LET parts == Split(repoId.v, "/")
    IN  [owner |-> At(parts, 0), uuid |-> At(parts, 1)]

\* the request getPerm issues
PermRequest(repoId, desiredAccess) ==
    Get(API_URL_V2 \o <<"/repositories/">> \o Interp(OwnerUuid(repoId).owner)
          \o RoleQuery(desiredAccess))

\* the three getPerm calls run, in order, inside the array literal handed to
\* Promise.all: all three requests are issued before _getPermissions returns.
\* repoId.split throws when the reference has no second part.
GetPermissions(scmUri) ==
    LET parts == getScmUriParts(scmUri)
    IN  /\ Callable
        /\ op' = "getPermissions"
        /\ config' = [DefaultConfig EXCEPT !.scmUri = scmUri]
        /\ scm' = parts
        /\ IF parts.repoId.t # "string"
           THEN /\ pc' = "done"
                /\ sent' = <<>>
                /\ perm' = NoPerm
                /\ outcome' = Thrown(TypeError)
           ELSE /\ pc' = "waiting"
                /\ sent' = <<PermRequest(parts.repoId, "admin"),
                            PermRequest(parts.repoId, "push"),
                            PermRequest(parts.repoId, "pull")>>
                /\ perm' = [s \in Scopes |-> PermPromise("pending", 0, Undefined, NoError)]
                /\ outcome' = Pending
        /\ response' = NoResponse
        /\ UNCHANGED <<origin, commit>>

\* the repositories visible under a scope
PermBodies == { Obj([values |-> v]) : v \in {{}, {Str(<<"{u1}">>)}} }

\* getPermHandler answering undefined, instead of throwing, on a status other
\* than 200
getPermHandler_swallow(r, uuid) ==
    IF r.statusCode # 200 THEN Return(Undefined)
    ELSE IF "values" \notin DOMAIN r.body.o THEN Throw(TypeError)
    ELSE Return(Bool(uuid \in r.body.o.values))

\* the .then handler of getPerm:
\*   response.body.values.some(r => r.uuid === uuid)
getPermHandler(r, uuid) ==
    IF CheckStatus(r).c = "throw" THEN CheckStatus(r)
    ELSE IF "values" \notin DOMAIN r.body.o THEN Throw(TypeError)
    ELSE Return(Bool(uuid \in r.body.o.values))

\* PromiseAll as a chain awaiting the queries in array order: a rejection
\* surfaces only once every query before it in the array has been fulfilled
PromiseAll_inOrder(p, s, current) ==
    IF current.state # "pending" THEN current
    ELSE IF p["admin"].state # "fulfilled"
         THEN (IF p["admin"].state = "rejected" THEN Rejected(p["admin"].error) ELSE current)
    ELSE IF p["push"].state # "fulfilled"
         THEN (IF p["push"].state = "rejected" THEN Rejected(p["push"].error) ELSE current)
    ELSE IF p["pull"].state # "fulfilled"
         THEN (IF p["pull"].state = "rejected" THEN Rejected(p["pull"].error) ELSE current)
    ELSE Resolved(Obj([admin |-> p["admin"].value, push |-> p["push"].value,
                       pull |-> p["pull"].value]))

\* Promise.all(...).then(([admin, push, pull]) => ({ admin, push, pull }))
\* after one more of its inputs has settled: the first rejection rejects it,
\* the last fulfilment resolves it, and a settled promise stays as it is
PromiseAll(p, s, current) ==
    IF current.state # "pending" THEN current
    ELSE IF p[s].state = "rejected" THEN Rejected(p[s].error)
    ELSE IF \A q \in Scopes : p[q].state = "fulfilled"
         THEN Resolved(Obj([admin |-> p["admin"].value, push |-> p["push"].value,
                            pull |-> p["pull"].value]))
    ELSE current

\* the answer to one scope's query is handled; answers come in any order, and
\* those that come after the aggregate has settled change nothing
PermResponse(s, r) ==
    /\ op = "getPermissions"
    /\ pc \in {"waiting", "done"}
    /\ perm[s].state = "pending"
    /\ LET c == getPermHandler(r, OwnerUuid(scm.repoId).uuid)
           p == [perm EXCEPT ![s] =
                   IF c.c = "throw"
                   THEN PermPromise("rejected", r.statusCode, Undefined, c.error)
                   ELSE PermPromise("fulfilled", r.statusCode, c.value, NoError)]
       IN  /\ perm' = p
           /\ outcome' = PromiseAll(p, s, outcome)
           /\ pc' = IF PromiseAll(p, s, outcome).state = "pending" THEN "waiting" ELSE "done"
    /\ UNCHANGED <<op, config, origin, scm, sent, response, commit>>

\* the caller has consumed the completion; the adapter keeps no state
Finish ==
    /\ pc = "done"
    /\ pc' = "idle"
    /\ op' = "none"
    /\ config' = DefaultConfig
    /\ origin' = NoOrigin
    /\ scm' = NoScm
    /\ sent' = <<>>
    /\ response' = NoResponse
    /\ commit' = Undefined
    /\ perm' = NoPerm
    /\ outcome' = NoOutcome


Next ==
    \/ \E u \in CheckoutUrls : ParseUrl(u)
    \/ \E r \in Responses(BranchBodies) : ParseUrlResponse(r)
    \/ \E h \in Headers, p \in Payloads : ParseHook(h, p)
    \/ \E u \in ScmUriChoices : GetCommitSha(u)
    \/ \E r \in Responses(ShaBodies) : GetCommitShaResponse(r)
    \/ \E u \in ScmUriChoices, ref \in Refs : GetFile(u, ref)
    \/ \E r \in Responses(FileBodies) : GetFileResponse(r)
    \/ \E u \in ScmUriChoices : DecorateUrl(u)
    \/ \E r \in Responses(RepoBodies) : DecorateUrlResponse(r)
    \/ \E u \in ScmUriChoices : DecorateCommit(u)
    \/ \E r \in Responses(CommitBodies) : DecorateCommitResponse(r)
    \/ \E n \in {<<"batman">>} : DecorateAuthor(n)
    \/ \E r \in Responses(UserBodies) : DecorateAuthorResponse(r)
    \/ \E u \in ScmUriChoices, b \in BuildStatuses, j \in JobNames, t \in BOOLEAN :
          UpdateCommitStatus(u, b, j, t)
    \/ \E r \in Responses(StatusBodies) : UpdateCommitStatusResponse(r)
    \/ \E u \in ScmUriChoices : GetPermissions(u)
    \/ \E s \in Scopes, r \in Responses(PermBodies) : PermResponse(s, r)
    \/ Finish

Spec == Init /\ [][Next]_vars

(***************************************************************************)
(* Properties                                                              *)
(***************************************************************************)
\* the operations that decode config.scmUri with getScmUriParts
DecodingOps == {"getCommitSha", "getFile", "decorateUrl", "decorateCommit",
                "updateCommitStatus", "getPermissions"}

NoColon(v) == v.t = "string" /\ Len(v.v) > 0 /\ \A i \in 1..Len(v.v) : v.v[i] # ":"

ValidParts(p) == NoColon(p.hostname) /\ NoColon(p.repoId) /\ NoColon(p.branch)

\* C1: decoding the reference _parseUrl composed as hostname:repositoryId:branch
\* gives back exactly the three parts it was composed of, whenever the parts
\* are non-empty and hold no colon.
C1_RoundTrip ==
    (origin.set /\ op \in DecodingOps /\ ValidParts(origin.parts))
        => scm = origin.parts

C1_Witness ==
    /\ origin.set
    /\ op = "getCommitSha"
    /\ ValidParts(origin.parts)
    /\ config.scmUri = Interp(origin.parts.hostname) \o <<":">>
                         \o Interp(origin.parts.repoId) \o <<":">>
                         \o Interp(origin.parts.branch)
    /\ scm.branch = Str(<<"feature", "/", "x">>)

Is2xx(statusCode) == statusCode >= 200 /\ statusCode <= 299

Answered(s) == perm[s].state \in {"fulfilled", "rejected"}

\* C2: permission aggregation is all-or-nothing: once a scope query has been
\* answered with a non-success status the aggregate has failed with an error,
\* and a record is returned only when all three queries succeeded, with a
\* boolean in each of admin, push and pull.
C2_AllOrNothing ==
    op = "getPermissions" =>
        /\ (\E s \in Scopes : Answered(s) /\ ~Is2xx(perm[s].statusCode))
              => (outcome.state = "rejected" /\ outcome.error.name # "none")
        /\ outcome.state = "resolved"
              => /\ \A s \in Scopes : perm[s].state = "fulfilled" /\ Is2xx(perm[s].statusCode)
                 /\ outcome.value.t = "object"
                 /\ \A s \in Scopes : outcome.value.o[s].t = "boolean"

C2_Witness ==
    /\ op = "getPermissions"
    /\ perm["admin"].state = "fulfilled"
    /\ perm["pull"].state = "fulfilled"
    /\ perm["push"].state = "rejected"
    /\ perm["push"].statusCode = 500
    /\ outcome.state = "rejected"
    /\ outcome.error.statusCode = 500

\* a webhook has been normalized to an event of the given type
HookEvent(type) ==
    /\ op = "parseHook"
    /\ pc = "done"
    /\ outcome.state = "resolved"
    /\ outcome.value.t = "object"
    /\ outcome.value.o.type = Str(<<type>>)

KeyParts == Split(config.headers.eventKey.v, ":")

\* C3 as stated: on repo:push the event's branch and sha are those of the LAST
\* entry of the push change list, whatever the length of the list.
C3_LastEntry ==
    (HookEvent("repo") /\ Len(config.payload.changes.a) >= 1) =>
        LET last == config.payload.changes.a[Len(config.payload.changes.a)]
        IN  /\ outcome.value.o.branch = last.name
            /\ outcome.value.o.sha = last.hash

\* C3 amended: on repo:push the event's branch and sha are those of the FIRST
\* entry of the push change list (changes[0]); a push with several entries
\* yields a single event describing only the first one.
C3_FirstEntry ==
    (HookEvent("repo") /\ Len(config.payload.changes.a) >= 1) =>
        LET first == config.payload.changes.a[1]
        IN  /\ KeyParts = <<<<"repo">>, <<"push">>>>
            /\ outcome.value.o.action = Str(<<"push">>)
            /\ outcome.value.o.branch = first.name
            /\ outcome.value.o.sha = first.hash

C3_Witness ==
    /\ HookEvent("repo")
    /\ Len(config.payload.changes.a) >= 2
    /\ config.payload.changes.a[1].name = Str(<<"main">>)
    /\ config.payload.changes.a[Len(config.payload.changes.a)].name = Str(<<"dev">>)
    /\ outcome.value.o.branch = Str(<<"main">>)
    /\ outcome.value.o.sha = Str(<<"abc123">>)

\* the action table of the pullrequest category as the specification gives it
PrTable ==
    [created |-> "opened", updated |-> "synchronized",
     fulfilled |-> "closed", rejected |-> "closed"]

\* C4: a pullrequest webhook that has been normalized is mapped by the table
\* created -> opened, updated -> synchronized, fulfilled -> closed,
\* rejected -> closed into an event of type pr carrying the destination
\* branch, the source commit hash, the pull request id and the source branch;
\* any other action gives the ignored (null) result.
C4_PrTable ==
    (/\ op = "parseHook"
     /\ outcome.state = "resolved"
     /\ config.headers.eventKey.t = "string"
     /\ KeyParts[1] = <<"pullrequest">>) =>
        IF Len(KeyParts) >= 2 /\ Len(KeyParts[2]) = 1 /\ KeyParts[2][1] \in DOMAIN PrTable
        THEN /\ outcome.value.t = "object"
             /\ outcome.value.o.type = Str(<<"pr">>)
             /\ outcome.value.o.action = Str(<<PrTable[KeyParts[2][1]]>>)
             /\ outcome.value.o.branch = ReachPr(config.payload, "destination")
             /\ outcome.value.o.sha = ReachPr(config.payload, "sourceHash")
             /\ outcome.value.o.prNum = ReachPr(config.payload, "id")
             /\ outcome.value.o.prRef = ReachPr(config.payload, "sourceBranch")
        ELSE outcome.value.t = "null"

\* C5: webhook normalization never fails: whatever the headers and payload,
\* _parseHook resolves to an event or to null and never throws or rejects.
C5_HookNeverFails ==
    op = "parseHook" => (outcome.state = "resolved" /\ outcome.value.t \in {"object", "null"})

\* C6: an operation handed a reference that does not split into exactly three
\* colon-delimited parts fails with InvalidRefError and decodes nothing.
C6_InvalidRef ==
    (op \in DecodingOps /\ Len(Split(config.scmUri, ":")) # 3) =>
        /\ outcome.state \in {"thrown", "rejected"}
        /\ outcome.error.name = "InvalidRefError"
        /\ sent = <<>>

\* C7: _parseUrl (getRepoInfo) fails with MalformedUrlError, and in no other
\* way, exactly on the URLs that do not match the checkout-URL grammar; on a
\* matching URL it goes on with hostname, owner, repo and the branch suffix
\* stripped of its separator.
C7_MalformedUrl ==
    op = "parseUrl" =>
        LET matched == CHECKOUT_URL_exec(config.checkoutUrl)
        IN  IF matched.t = "null"
            THEN outcome.state = "thrown" /\ outcome.error.name = "MalformedUrlError"
            ELSE /\ outcome.state # "thrown"
                 /\ Len(sent) = 1
                 /\ sent[1].url = REPO_URL \o <<"/">> \o matched.a[3].v \o <<"/">>
                                    \o matched.a[4].v \o <<"/refs/branches/">>
                                    \o (IF matched.a[5].t = "string"
                                        THEN Tail(matched.a[5].v) ELSE <<"master">>)

\* C8: a checkout URL that matches the grammar and has no #branch suffix is
\* accepted: parsing it does not fail and the branch lookup is issued.
C8_NoSuffixAccepted ==
    (/\ op = "parseUrl"
     /\ CHECKOUT_URL_exec(config.checkoutUrl).t = "array"
     /\ CHECKOUT_URL_exec(config.checkoutUrl).a[5].t = "undefined") =>
        (outcome.state # "thrown" /\ Len(sent) = 1)

\* the state table of the commit-status write as the specification gives it
WireStates ==
    [SUCCESS |-> "SUCCESSFUL", RUNNING |-> "INPROGRESS", QUEUED |-> "INPROGRESS",
     FAILURE |-> "FAILED", ABORTED |-> "STOPPED"]

\* C9: every commit-status write carries the state the fixed table gives for
\* the build status, one of SUCCESSFUL, INPROGRESS, FAILED, STOPPED; the call
\* succeeds exactly when the answer's status is 200 or 201, and otherwise
\* fails with an error carrying the status code and the body.
C9_StatusWrite ==
    /\ \A i \in 1..Len(sent) :
          sent[i].method = "POST" =>
              /\ sent[i].state = Str(<<WireStates[config.buildStatus]>>)
              /\ sent[i].state.v[1] \in {"SUCCESSFUL", "INPROGRESS", "FAILED", "STOPPED"}
    /\ (op = "updateCommitStatus" /\ response # NoResponse) =>
          IF response.statusCode \in {200, 201}
          THEN outcome.state = "resolved"
          ELSE /\ outcome.state = "rejected"
               /\ outcome.error.statusCode = response.statusCode
               /\ outcome.error.body = response.body

C9_Witness ==
    /\ op = "updateCommitStatus"
    /\ config.buildStatus = "QUEUED"
    /\ Len(sent) = 1
    /\ sent[1].state = Str(<<"INPROGRESS">>)
    /\ response.statusCode = 201
    /\ outcome.state = "resolved"

\* the read-through operations, the author lookup included
ReadOps == {"getCommitSha", "getFile", "decorateCommit", "decorateAuthor"}

\* an error made from the answer's status: the one every status check builds,
\* and the distinct one _parseUrl builds for a 404
UpstreamError(e) == e.name = "Error" /\ e.message = "STATUS CODE"

NotFoundError(e) == e.name = "Error" /\ e.message = "Cannot find repository"

\* C10 as stated: a read-through operation answers a 404 with a NotFoundError,
\* any other non-2xx status with an UpstreamError, and no 2xx status with
\* either.
C10_ByStatus ==
    (op \in ReadOps /\ response # NoResponse) =>
        IF response.statusCode = 404
        THEN outcome.state = "rejected" /\ NotFoundError(outcome.error)
        ELSE IF ~Is2xx(response.statusCode)
        THEN outcome.state = "rejected" /\ UpstreamError(outcome.error)
        ELSE ~(outcome.state = "rejected" /\ UpstreamError(outcome.error))

\* C10 amended: a read-through operation tests the status against 200 only:
\* every answer whose status is not 200, a 404 and the other 2xx statuses
\* included, gives the same UpstreamError carrying the status code and the
\* body, and never a NotFoundError; an answer of status 200 gives neither.
C10_Only200 ==
    (op \in ReadOps /\ response # NoResponse) =>
        IF response.statusCode # 200
        THEN /\ pc = "done"
             /\ outcome.state = "rejected"
             /\ UpstreamError(outcome.error)
             /\ outcome.error.statusCode = response.statusCode
             /\ outcome.error.body = response.body
        ELSE ~(outcome.state = "rejected"
                 /\ (UpstreamError(outcome.error) \/ NotFoundError(outcome.error)))

C10_Witness ==
    /\ op = "getFile"
    /\ response.statusCode = 404
    /\ outcome.state = "rejected"
    /\ UpstreamError(outcome.error)
    /\ outcome.error.statusCode = 404

\* the three scope queries have been handed to the breaker, in array order
AllDispatched ==
    /\ Len(sent) = 3
    /\ sent[1] = PermRequest(scm.repoId, "admin")
    /\ sent[2] = PermRequest(scm.repoId, "push")
    /\ sent[3] = PermRequest(scm.repoId, "pull")
    /\ \A s \in Scopes : perm[s].state # "idle"

\* a step of a _getPermissions call in progress
PermStep == op = "getPermissions" /\ op' = "getPermissions"

\* C11: in _getPermissions the admin, push and pull queries are all dispatched
\* before any answer is handled, and handling an answer dispatches nothing;
\* under every order of the answers the aggregate resolves only once all three
\* queries have been answered, the first rejection handled is the error
\* surfaced, and whatever the other queries answer afterwards is discarded.
C11_ConcurrentJoin ==
    /\ [](op = "getPermissions" =>
            /\ outcome.state # "thrown" => AllDispatched
            /\ outcome.state = "resolved" => \A s \in Scopes : perm[s].state = "fulfilled"
            /\ outcome.state = "pending" => \A s \in Scopes : perm[s].state # "rejected")
    /\ [][PermStep =>
            /\ sent' = sent
            /\ \A s \in Scopes :
                  (outcome.state = "pending" /\ perm[s].state = "pending"
                     /\ perm'[s].state = "rejected")
                      => outcome' = Rejected(perm'[s].error)
            /\ outcome.state \in {"resolved", "rejected"} => outcome' = outcome]_vars

\* push was rejected first with a 500 and surfaced; admin was rejected after it
\* with a 404, which is discarded, and pull has not been answered
C11_Witness ==
    /\ op = "getPermissions"
    /\ AllDispatched
    /\ perm["push"].state = "rejected"
    /\ perm["push"].statusCode = 500
    /\ perm["admin"].state = "rejected"
    /\ perm["admin"].statusCode = 404
    /\ perm["pull"].state = "pending"
    /\ outcome.state = "rejected"
    /\ outcome.error.statusCode = 500

====
